---- MODULE Spec2Model ----
(***************************************************************************)
(* Model of the UDim2 datatype of lib-roblox                               *)
(* (packages/lib-roblox/src/datatypes/types/udim2.rs): its constructors,   *)
(* arithmetic, Lerp, equality and its conversion to and from the tagged    *)
(* RbxVariant value.                                                       *)
(*                                                                         *)
(* Numbers.  An f32 is a record [k, s, m, e]: k is "fin", "inf" or "nan",  *)
(* s the sign bit, and a finite value is (-1)^s * m * 2^e with m below     *)
(* 2^24 and m odd unless the value is zero (so equal finite values are     *)
(* equal records, apart from the sign of zero).  A Lua number (f64) has    *)
(* the same shape with a mantissa that may be wider than 24 bits.  Every   *)
(* operation rounds to nearest, ties to even, as IEEE 754 does.  The       *)
(* values of the model stay far from the subnormal range, which is not     *)
(* modelled.  An i32 is an integer of [I32_MIN, I32_MAX].                  *)
(***************************************************************************)
EXTENDS Integers, Sequences, FiniteSets, TLC

VARIABLES pc, call, out

vars == <<pc, call, out>>

-----------------------------------------------------------------------------
(* Bounds of the model *)

\* longest argument list passed to UDim2.new
MaxArgs == 5
\* the scalars given to Lerp include n/4 for every n of -MaxAlphaQ..MaxAlphaQ
MaxAlphaQ == 6

-----------------------------------------------------------------------------
(* i32 *)

I32_MAX == 2147483647
I32_MIN == -I32_MAX - 1

\* number of significant bits of an f32
F32_MANTISSA_DIGITS == 24
\* 2^F32_MAX_EXP is the first power of two that is not a finite f32
F32_MAX_EXP == 128

Pow2(n) == 2^n

RECURSIVE BitLen(_)
BitLen(m) == IF m = 0 THEN 0 ELSE 1 + BitLen(m \div 2)

\* i32 negation, addition and subtraction, wrapping modulo 2^32
WrapNeg(a) == IF a = I32_MIN THEN I32_MIN ELSE -a

WrapAdd(a, b) ==
    IF a >= 0 /\ b >= 0 /\ a > I32_MAX - b
      THEN (a - I32_MAX - 1) + (b - I32_MAX - 1)
    ELSE IF a < 0 /\ b < 0 /\ a < I32_MIN - b
      THEN (a + I32_MAX + 1) + (b + I32_MAX + 1)
    ELSE a + b

WrapSub(a, b) ==
    IF a >= 0 /\ b < 0 /\ a > I32_MAX + b
      THEN (a - I32_MAX - 1) - (b + I32_MAX + 1)
    ELSE IF a < 0 /\ b > 0 /\ a < I32_MIN + b
      THEN (a + I32_MAX + 1) - (b - I32_MAX - 1)
    ELSE a - b

-----------------------------------------------------------------------------
(* f32 *)

NaN == [k |-> "nan", s |-> 0, m |-> 0, e |-> 0]
Inf(s) == [k |-> "inf", s |-> s, m |-> 0, e |-> 0]
Zero(s) == [k |-> "fin", s |-> s, m |-> 0, e |-> 0]

IsNaN(x) == x.k = "nan"
IsInf(x) == x.k = "inf"
IsFinite(x) == x.k = "fin"
IsZero(x) == x.k = "fin" /\ x.m = 0

\* the record of (-1)^s * m * 2^e, m > 0 of at most 24 bits: trailing zero
\* bits of m move into the exponent
RECURSIVE Canon(_, _, _)
Canon(s, m, e) ==
    IF m = 0 THEN Zero(s)
    ELSE IF m % 2 = 0 THEN Canon(s, m \div 2, e + 1)
    ELSE IF BitLen(m) + e > F32_MAX_EXP THEN Inf(s)
    ELSE [k |-> "fin", s |-> s, m |-> m, e |-> e]

\* (-1)^s * m * 2^e, m below 2^31, rounded to the nearest f32, ties to even
RoundPack(s, m, e) ==
    LET len == BitLen(m) IN
    IF len <= F32_MANTISSA_DIGITS THEN Canon(s, m, e)
    ELSE LET sh   == len - F32_MANTISSA_DIGITS
             q    == m \div Pow2(sh)
             r    == m % Pow2(sh)
             half == Pow2(sh - 1)
             up   == r > half \/ (r = half /\ q % 2 = 1)
         IN  Canon(s, IF up THEN q + 1 ELSE q, e + sh)

\* a finite number written as a signed integer n times 2^e
MkF(n, e) == IF n < 0 THEN RoundPack(1, -n, e) ELSE RoundPack(0, n, e)

FNeg(x) == IF IsNaN(x) THEN NaN ELSE [x EXCEPT !.s = 1 - x.s]

\* |x| < |y| for finite nonzero x, y
MagLt(x, y) ==
    LET lx == BitLen(x.m) + x.e
        ly == BitLen(y.m) + y.e
    IN  IF lx # ly THEN lx < ly
        ELSE LET bx == BitLen(x.m)
                 by == BitLen(y.m)
             IN  IF bx >= by THEN x.m < y.m * Pow2(bx - by)
                 ELSE x.m * Pow2(by - bx) < y.m

\* x < y, false when either is NaN
FLt(x, y) ==
    IF IsNaN(x) \/ IsNaN(y) THEN FALSE
    ELSE IF IsZero(x) /\ IsZero(y) THEN FALSE
    ELSE IF IsInf(x) THEN x.s = 1 /\ ~(IsInf(y) /\ y.s = 1)
    ELSE IF IsInf(y) THEN y.s = 0
    ELSE IF IsZero(x) THEN y.s = 0
    ELSE IF IsZero(y) THEN x.s = 1
    ELSE IF x.s # y.s THEN x.s = 1
    ELSE IF x.s = 0 THEN MagLt(x, y) ELSE MagLt(y, x)

\* x == y of f32: NaN equals nothing, -0 equals +0
FEq(x, y) ==
    IF IsNaN(x) \/ IsNaN(y) THEN FALSE
    ELSE IF IsZero(x) /\ IsZero(y) THEN TRUE
    ELSE x = y

\* the sum of two finite nonzero numbers, (ea >= eb): exact when it fits 30
\* bits, else with the low bits of the smaller operand folded into a sticky bit
AddAligned(sa, ma, ea, sb, mb, eb) ==
    LET d  == ea - eb
        la == BitLen(ma) + d
        sg(s) == IF s = 1 THEN -1 ELSE 1
    IN  IF la <= 29
          THEN LET sum == sg(sa) * ma * Pow2(d) + sg(sb) * mb
               IN  IF sum = 0 THEN Zero(0)
                   ELSE IF sum < 0 THEN RoundPack(1, -sum, eb)
                   ELSE RoundPack(0, sum, eb)
          ELSE LET t   == la - 28
                   a1  == ma * Pow2(28 - BitLen(ma))
                   bh  == IF t >= 25 THEN 0 ELSE mb \div Pow2(t)
                   st  == IF t >= 25 THEN 1
                          ELSE IF mb % Pow2(t) # 0 THEN 1 ELSE 0
                   sum == 2 * a1 + (IF sa = sb THEN 1 ELSE -1) * (2 * bh + st)
               IN  RoundPack(sa, sum, eb + t - 1)

\* x + y of f32
FAdd(x, y) ==
    IF IsNaN(x) \/ IsNaN(y) THEN NaN
    ELSE IF IsInf(x) THEN (IF IsInf(y) /\ y.s # x.s THEN NaN ELSE x)
    ELSE IF IsInf(y) THEN y
    ELSE IF IsZero(x) /\ IsZero(y) THEN Zero(IF x.s = 1 /\ y.s = 1 THEN 1 ELSE 0)
    ELSE IF IsZero(x) THEN y
    ELSE IF IsZero(y) THEN x
    ELSE IF x.e >= y.e THEN AddAligned(x.s, x.m, x.e, y.s, y.m, y.e)
    ELSE AddAligned(y.s, y.m, y.e, x.s, x.m, x.e)

\* x - y of f32
FSub(x, y) == FAdd(x, FNeg(y))

\* x * y of f32 (the product of the two mantissas must stay below 2^31)
FMul(x, y) ==
    LET s == IF x.s = y.s THEN 0 ELSE 1 IN
    IF IsNaN(x) \/ IsNaN(y) THEN NaN
    ELSE IF IsInf(x) \/ IsInf(y)
      THEN (IF IsZero(x) \/ IsZero(y) THEN NaN ELSE Inf(s))
    ELSE IF IsZero(x) \/ IsZero(y) THEN Zero(s)
    ELSE RoundPack(s, x.m * y.m, x.e + y.e)

\* i32 as f32
I32ToF32(n) ==
    IF n = I32_MIN THEN Canon(1, 1, 31)
    ELSE IF n < 0 THEN RoundPack(1, -n, 0)
    ELSE RoundPack(0, n, 0)

\* f32::clamp(min, max): NaN stays NaN
FClamp(x, min, max) ==
    IF FLt(x, min) THEN min
    ELSE IF FLt(max, x) THEN max
    ELSE x

\* f32::round: to the nearest integer, halves away from zero
FRound(x) ==
    IF ~IsFinite(x) \/ x.e >= 0 THEN x
    ELSE IF -x.e > F32_MANTISSA_DIGITS THEN Zero(x.s)
    ELSE LET q == x.m \div Pow2(-x.e)
             r == x.m % Pow2(-x.e)
         IN  Canon(x.s, IF 2 * r >= Pow2(-x.e) THEN q + 1 ELSE q, 0)

\* f32 as i32: toward zero, saturating, NaN gives 0
F32ToI32(x) ==
    IF IsNaN(x) THEN 0
    ELSE IF IsInf(x) THEN (IF x.s = 1 THEN I32_MIN ELSE I32_MAX)
    ELSE IF x.e >= 0
      THEN (IF x.m # 0 /\ BitLen(x.m) + x.e >= 32
              THEN (IF x.s = 1 THEN I32_MIN ELSE I32_MAX)
            ELSE IF x.s = 1 THEN -(x.m * Pow2(x.e)) ELSE x.m * Pow2(x.e))
    ELSE IF -x.e > F32_MANTISSA_DIGITS THEN 0
    ELSE LET q == x.m \div Pow2(-x.e) IN IF x.s = 1 THEN -q ELSE q

-----------------------------------------------------------------------------
(* Results and options *)

Ok(v) == [ok |-> TRUE, v |-> v]
Err(e) == [ok |-> FALSE, err |-> e]

None == [some |-> FALSE]
Some(v) == [some |-> TRUE, v |-> v]

-----------------------------------------------------------------------------
(* UDim: one axis, { scale: f32, offset: i32 } *)

MkUDim(scale, offset) == [scale |-> scale, offset |-> offset]

\* UDim::default()
UDim_default == MkUDim(Zero(0), 0)

UDim_eq(a, b) == FEq(a.scale, b.scale) /\ a.offset = b.offset

UDim_neg(a) == MkUDim(FNeg(a.scale), WrapNeg(a.offset))

UDim_add(a, b) == MkUDim(FAdd(a.scale, b.scale), WrapAdd(a.offset, b.offset))

UDim_sub(a, b) == MkUDim(FSub(a.scale, b.scale), WrapSub(a.offset, b.offset))

\* the UDim of the external object model, and the conversions between the two
MkRbxUDim(scale, offset) == [ty |-> "RbxUDim", scale |-> scale, offset |-> offset]

UDim_from_RbxUDim(v) == MkUDim(v.scale, v.offset)

RbxUDim_from_UDim(v) == MkRbxUDim(v.scale, v.offset)

-----------------------------------------------------------------------------
(* UDim2 *)

MkUDim2(x, y) == [x |-> x, y |-> y]

\* #[derive(PartialEq)]
UDim2_eq(a, b) == UDim_eq(a.x, b.x) /\ UDim_eq(a.y, b.y)

UDim2_zero == MkUDim2(UDim_default, UDim_default)

-----------------------------------------------------------------------------
(* Values of the Lua runtime, and their conversion to Rust values *)

LuaNil == [t |-> "nil"]
LuaNumber(n) == [t |-> "number", n |-> n]
LuaString(s) == [t |-> "string", s |-> s]
LuaUserData(ty, v) == [t |-> "userdata", ty |-> ty, v |-> v]

\* the number a Lua string converts to, if any
StringToNumber(s) == IF s = "10" THEN Some(MkF(10, 0)) ELSE None

\* the number a value coerces to: a number, or a string that reads as one
CoerceNumber(val) ==
    IF val.t = "number" THEN Some(val.n)
    ELSE IF val.t = "string" THEN StringToNumber(val.s)
    ELSE None

\* a Lua number (f64) as f32
NumberToF32(n) == IF IsFinite(n) THEN RoundPack(n.s, n.m, n.e) ELSE n

\* a Lua number as i32: toward zero, none when NaN or out of range
NumberToI32(n) ==
    IF ~IsFinite(n) THEN None
    ELSE IF n.m = 0 THEN Some(0)
    ELSE IF n.e >= 0
      THEN (IF n.s = 1 /\ n.m = 1 /\ n.e = 31 THEN Some(I32_MIN)
            ELSE IF BitLen(n.m) + n.e >= 32 THEN None
            ELSE Some((IF n.s = 1 THEN -1 ELSE 1) * n.m * Pow2(n.e)))
    ELSE IF -n.e > 30 THEN Some(0)
    ELSE Some((IF n.s = 1 THEN -1 ELSE 1) * (n.m \div Pow2(-n.e)))

ConversionError(to) == [kind |-> "FromLuaConversionError", to |-> to]

\* f32::from_lua
F32FromLua(val) ==
    LET n == CoerceNumber(val) IN
    IF n.some THEN Ok(NumberToF32(n.v)) ELSE Err(ConversionError("f32"))

\* i32::from_lua
I32FromLua(val) ==
    LET n == CoerceNumber(val) IN
    IF ~n.some THEN Err(ConversionError("i32"))
    ELSE LET i == NumberToI32(n.v) IN
         IF i.some THEN Ok(i.v) ELSE Err(ConversionError("i32"))

\* UDim::from_lua: a userdata holding a UDim
UDimFromLua(val) ==
    IF val.t = "userdata" /\ val.ty = "UDim" THEN Ok(val.v)
    ELSE Err(ConversionError("UDim"))

\* Option<T>::from_lua for the three element types
OptionFromLua(T, val) ==
    IF val.t = "nil" THEN Ok(None)
    ELSE LET r == CASE T = "f32" -> F32FromLua(val)
                    [] T = "i32" -> I32FromLua(val)
                    [] T = "UDim" -> UDimFromLua(val)
         IN  IF r.ok THEN Ok(Some(r.v)) ELSE r

\* the i-th value of an argument list, nil past its end
Arg(args, i) == IF i <= Len(args) THEN args[i] ELSE LuaNil

\* from_lua_multi of a tuple of Option types: one value per element from the
\* front of the list, nil for a missing one; values left over are ignored
TupleFromLuaMulti(types, args) ==
    LET r == [i \in 1..Len(types) |-> OptionFromLua(types[i], Arg(args, i))] IN
    IF \A i \in 1..Len(types) : r[i].ok
      THEN Ok([i \in 1..Len(types) |-> r[i].v])
      ELSE Err((r[CHOOSE i \in 1..Len(types) :
                    ~r[i].ok /\ \A j \in 1..(i - 1) : r[j].ok]).err)

ArgsUDims == <<"UDim", "UDim">>
ArgsNums == <<"f32", "i32", "f32", "i32">>

unwrap_or_default(T, o) ==
    IF o.some THEN o.v
    ELSE CASE T = "f32" -> Zero(0)
           [] T = "i32" -> 0
           [] T = "UDim" -> UDim_default

-----------------------------------------------------------------------------
(* Constructors *)

\* UDim2.fromScale(x, y)
UDim2_fromScale(args) ==
    LET r == TupleFromLuaMulti(<<"f32", "f32">>, args) IN
    IF ~r.ok THEN r
    ELSE Ok(MkUDim2(MkUDim(unwrap_or_default("f32", r.v[1]), 0),
                    MkUDim(unwrap_or_default("f32", r.v[2]), 0)))

\* UDim2.fromOffset(x, y)
UDim2_fromOffset(args) ==
    LET r == TupleFromLuaMulti(<<"i32", "i32">>, args) IN
    IF ~r.ok THEN r
    ELSE Ok(MkUDim2(MkUDim(Zero(0), unwrap_or_default("i32", r.v[1])),
                    MkUDim(Zero(0), unwrap_or_default("i32", r.v[2]))))

\* the message of the error UDim2.new raises, word by word
InvalidArgumentsMessage == <<"Invalid", "arguments", "to", "constructor">>

\* the branch UDim2.new takes on an argument list
NewBranch(args) ==
    IF TupleFromLuaMulti(ArgsUDims, args).ok THEN "udims"
    ELSE IF TupleFromLuaMulti(ArgsNums, args).ok THEN "nums"
    ELSE "invalid"

\* as UDim2_new, with the y axis of the four-number shape built from the
\* first two numbers
UDim2_new_yFromX(args) ==
    LET u == TupleFromLuaMulti(ArgsUDims, args)
        n == TupleFromLuaMulti(ArgsNums, args)
    IN  IF u.ok
          THEN Ok(MkUDim2(unwrap_or_default("UDim", u.v[1]),
                          unwrap_or_default("UDim", u.v[2])))
        ELSE IF n.ok
          THEN Ok(MkUDim2(MkUDim(unwrap_or_default("f32", n.v[1]),
                                 unwrap_or_default("i32", n.v[2])),
                          MkUDim(unwrap_or_default("f32", n.v[1]),
                                 unwrap_or_default("i32", n.v[2]))))
        ELSE Err([kind |-> "RuntimeError", message |-> InvalidArgumentsMessage])

\* UDim2.new(...)
UDim2_new(args) ==
    LET u == TupleFromLuaMulti(ArgsUDims, args)
        n == TupleFromLuaMulti(ArgsNums, args)
    IN  IF u.ok
          THEN Ok(MkUDim2(unwrap_or_default("UDim", u.v[1]),
                          unwrap_or_default("UDim", u.v[2])))
        ELSE IF n.ok
          THEN Ok(MkUDim2(MkUDim(unwrap_or_default("f32", n.v[1]),
                                 unwrap_or_default("i32", n.v[2])),
                          MkUDim(unwrap_or_default("f32", n.v[3]),
                                 unwrap_or_default("i32", n.v[4]))))
        ELSE Err([kind |-> "RuntimeError", message |-> InvalidArgumentsMessage])

-----------------------------------------------------------------------------
(* Arithmetic *)

\* as UDim2_neg, with the y axis left as it is
UDim2_neg_xOnly(a) == MkUDim2(UDim_neg(a.x), a.y)

UDim2_neg(a) == MkUDim2(UDim_neg(a.x), UDim_neg(a.y))

UDim2_add(a, b) == MkUDim2(UDim_add(a.x, b.x), UDim_add(a.y, b.y))

UDim2_sub(a, b) == MkUDim2(UDim_sub(a.x, b.x), UDim_sub(a.y, b.y))

-----------------------------------------------------------------------------
(* Lerp *)

Vec2_new(x, y) == [x |-> x, y |-> y]

\* Vec2::lerp: self + (rhs - self) * s, on each component
Vec2_lerp(a, b, s) ==
    Vec2_new(FAdd(a.x, FMul(FSub(b.x, a.x), s)),
             FAdd(a.y, FMul(FSub(b.y, a.y), s)))

\* as LerpOffset, without the rounding: the cast cuts the fraction off
LerpOffset_noRound(v) == F32ToI32(FClamp(v, I32ToF32(I32_MIN), I32ToF32(I32_MAX)))

\* the offset of a Lerp result from the interpolated value
LerpOffset(v) == F32ToI32(FRound(FClamp(v, I32ToF32(I32_MIN), I32ToF32(I32_MAX))))

\* this:Lerp(rhs, alpha)
UDim2_Lerp(this, rhs, alpha) ==
    LET this_vec_x == Vec2_new(this.x.scale, I32ToF32(this.x.offset))
        this_vec_y == Vec2_new(this.y.scale, I32ToF32(this.y.offset))
        rhs_vec_x  == Vec2_new(rhs.x.scale, I32ToF32(rhs.x.offset))
        rhs_vec_y  == Vec2_new(rhs.y.scale, I32ToF32(rhs.y.offset))
        result_x   == Vec2_lerp(this_vec_x, rhs_vec_x, alpha)
        result_y   == Vec2_lerp(this_vec_y, rhs_vec_y, alpha)
    IN  MkUDim2(MkUDim(result_x.x, LerpOffset(result_x.y)),
                MkUDim(result_y.x, LerpOffset(result_y.y)))

-----------------------------------------------------------------------------
(* The tagged value of the external object model *)

\* the discriminants, by name; a discriminant is an index of this list
VariantTypeNames ==
    << "Axes", "BinaryString", "Bool", "BrickColor", "CFrame", "Color3",
       "Color3uint8", "ColorSequence", "Content", "Enum", "Faces", "Float32",
       "Float64", "Int32", "Int64", "NumberRange", "NumberSequence",
       "PhysicalProperties", "Ray", "Rect", "Ref", "Region3", "Region3int16",
       "SharedString", "String", "UDim", "UDim2", "Vector2", "Vector2int16",
       "Vector3", "Vector3int16", "OptionalCFrame" >>

RbxVariantType == 1..Len(VariantTypeNames)

TypeNamed(name) == CHOOSE t \in RbxVariantType : VariantTypeNames[t] = name

RbxVariantType_UDim2 == TypeNamed("UDim2")

MkRbxVariant(tag, payload) == [tag |-> tag, payload |-> payload]

\* variant_name() of a tagged value and of a discriminant
variant_name(variant) == VariantTypeNames[variant.tag]
type_variant_name(ty) == VariantTypeNames[ty]

MkRbxUDim2(x, y) == [ty |-> "RbxUDim2", x |-> x, y |-> y]

\* as UDim2_from_RbxUDim2, with y read from the x axis
UDim2_from_RbxUDim2_bothX(v) ==
    MkUDim2(UDim_from_RbxUDim(v.x), UDim_from_RbxUDim(v.x))

\* impl From<&RbxUDim2> for UDim2
UDim2_from_RbxUDim2(v) == MkUDim2(UDim_from_RbxUDim(v.x), UDim_from_RbxUDim(v.y))

\* impl From<&UDim2> for RbxUDim2
RbxUDim2_from_UDim2(v) == MkRbxUDim2(RbxUDim_from_UDim(v.x), RbxUDim_from_UDim(v.y))

\* as from_rbx_variant, with the two names of the error exchanged
from_rbx_variant_namesSwapped(variant) ==
    IF variant.tag = RbxVariantType_UDim2
      THEN Ok(UDim2_from_RbxUDim2(variant.payload))
      ELSE Err([kind |-> "FromRbxVariant", from |-> "UDim2",
                to |-> variant_name(variant), detail |-> None])

from_rbx_variant(variant) ==
    IF variant.tag = RbxVariantType_UDim2
      THEN Ok(UDim2_from_RbxUDim2(variant.payload))
      ELSE Err([kind |-> "FromRbxVariant", from |-> variant_name(variant),
                to |-> "UDim2", detail |-> None])

\* as to_rbx_variant, with the requested discriminant never looked at
to_rbx_variant_anyTarget(self, desired_type) ==
    Ok(MkRbxVariant(RbxVariantType_UDim2, RbxUDim2_from_UDim2(self)))

to_rbx_variant(self, desired_type) ==
    IF desired_type = None \/ desired_type = Some(RbxVariantType_UDim2)
      THEN Ok(MkRbxVariant(RbxVariantType_UDim2, RbxUDim2_from_UDim2(self)))
      ELSE Err([kind |-> "ToRbxVariant",
                to |-> IF desired_type.some THEN type_variant_name(desired_type.v)
                       ELSE "?",
                from |-> "UDim2", detail |-> None])

-----------------------------------------------------------------------------
(* The values the operations are called with *)

\* argument values of the constructors
UDimA == MkUDim(MkF(1, -1), 10)
UDimB == MkUDim(MkF(1, -2), 5)

ArgVals ==
    { LuaNil,
      LuaNumber(MkF(1, -1)), LuaNumber(MkF(10, 0)),
      LuaNumber(MkF(1, -2)), LuaNumber(MkF(5, 0)),
      LuaString("x"),
      LuaUserData("UDim", UDimA), LuaUserData("UDim", UDimB) }

ArgLists(n) == UNION { [1..k -> ArgVals] : k \in 0..n }

\* argument values of the two factories: also a numeric string, a number no
\* f32 holds, numbers beyond i32, a NaN and a userdata
FactoryArgVals ==
    { LuaNil, LuaNumber(MkF(1, -1)), LuaNumber(MkF(-7, -1)), LuaNumber(MkF(10, 0)),
      LuaNumber([k |-> "fin", s |-> 0, m |-> 16777217, e |-> 0]),
      LuaNumber(MkF(1, 31)), LuaNumber(MkF(-1, 31)), LuaNumber(NaN),
      LuaString("x"), LuaString("10"), LuaUserData("UDim", UDimA) }

\* single axes for the arithmetic and the conversions
AxisSamples ==
    { UDim_default, UDimA, MkUDim(Zero(1), I32_MIN), MkUDim(Inf(0), I32_MAX),
      MkUDim(NaN, 1), MkUDim(MkF(-3, -2), -5) }

ArithAxes == AxisSamples \cup { UDim_neg(u) : u \in AxisSamples }

ArithUDim2s == { MkUDim2(x, y) : x \in ArithAxes, y \in ArithAxes }

ConvUDim2s == { MkUDim2(x, y) : x \in AxisSamples, y \in AxisSamples }

\* a tagged value of every discriminant
PayloadOf(ty) ==
    IF ty = TypeNamed("UDim") THEN { RbxUDim_from_UDim(u) : u \in AxisSamples }
    ELSE IF ty = RbxVariantType_UDim2 THEN { RbxUDim2_from_UDim2(v) : v \in ConvUDim2s }
    ELSE { [ty |-> VariantTypeNames[ty]] }

Variants == UNION { { MkRbxVariant(ty, p) : p \in PayloadOf(ty) } : ty \in RbxVariantType }

DesiredTypes == { None } \cup { Some(ty) : ty \in RbxVariantType }

\* axes and scalars for Lerp: offsets no f32 holds and the ends of i32
LerpAxes ==
    { UDim_default, UDimA, MkUDim(MkF(-3, -1), 16777217), MkUDim(MkF(3, 0), I32_MIN),
      MkUDim(MkF(1, -2), I32_MAX), MkUDim(MkF(1, 0), -3) }

LerpUDim2s == { MkUDim2(x, y) : x \in LerpAxes, y \in LerpAxes }

Alphas ==
    { MkF(n, -2) : n \in (-MaxAlphaQ)..MaxAlphaQ }
      \cup { MkF(1, 10), MkF(-1, 10), Inf(0), Inf(1), NaN }

-----------------------------------------------------------------------------
(* The state machine: one call of an operation, then, for a conversion to  *)
(* a tagged value that succeeded, the conversion of that value back.       *)

Init == pc = "ready" /\ call = [op |-> "none"] /\ out = [ok |-> TRUE]

New ==
    /\ pc = "ready"
    /\ \E args \in ArgLists(MaxArgs) :
         /\ call' = [op |-> "new", args |-> args]
         /\ out' = UDim2_new(args)
         /\ pc' = NewBranch(args)

FromScale ==
    /\ pc = "ready"
    /\ \E args \in UNION { [1..k -> FactoryArgVals] : k \in 0..2 } :
         /\ call' = [op |-> "fromScale", args |-> args]
         /\ out' = UDim2_fromScale(args)
         /\ pc' = "done"

FromOffset ==
    /\ pc = "ready"
    /\ \E args \in UNION { [1..k -> FactoryArgVals] : k \in 0..2 } :
         /\ call' = [op |-> "fromOffset", args |-> args]
         /\ out' = UDim2_fromOffset(args)
         /\ pc' = "done"

Unm ==
    /\ pc = "ready"
    /\ \E this \in ArithUDim2s :
         /\ call' = [op |-> "unm", this |-> this]
         /\ out' = Ok(UDim2_neg(this))
         /\ pc' = "done"

Add ==
    /\ pc = "ready"
    /\ \E this \in ArithUDim2s, rhs \in ArithUDim2s :
         /\ call' = [op |-> "add", this |-> this, rhs |-> rhs]
         /\ out' = Ok(UDim2_add(this, rhs))
         /\ pc' = "done"

Sub ==
    /\ pc = "ready"
    /\ \E this \in ArithUDim2s, rhs \in ArithUDim2s :
         /\ call' = [op |-> "sub", this |-> this, rhs |-> rhs]
         /\ out' = Ok(UDim2_sub(this, rhs))
         /\ pc' = "done"

Lerp ==
    /\ pc = "ready"
    /\ \E this \in LerpUDim2s, rhs \in LerpUDim2s, alpha \in Alphas :
         /\ call' = [op |-> "Lerp", this |-> this, rhs |-> rhs, alpha |-> alpha]
         /\ out' = Ok(UDim2_Lerp(this, rhs, alpha))
         /\ pc' = "done"

ToVariant ==
    /\ pc = "ready"
    /\ \E self \in ConvUDim2s, desired \in DesiredTypes :
         /\ call' = [op |-> "to_rbx_variant", self |-> self, desired |-> desired]
         /\ out' = to_rbx_variant(self, desired)
         /\ pc' = IF to_rbx_variant(self, desired).ok THEN "converted" ELSE "done"

\* from_rbx_variant on a tagged value of any discriminant
FromVariant ==
    /\ pc = "ready"
    /\ \E variant \in Variants :
         /\ call' = [op |-> "from_rbx_variant", variant |-> variant, origin |-> None]
         /\ out' = from_rbx_variant(variant)
         /\ pc' = "done"

\* from_rbx_variant on the tagged value to_rbx_variant has just returned
FromVariantBack ==
    /\ pc = "converted"
    /\ call' = [op |-> "from_rbx_variant", variant |-> out.v, origin |-> Some(call.self)]
    /\ out' = from_rbx_variant(out.v)
    /\ pc' = "done"

NextNew == New \/ FromScale \/ FromOffset
NextArith == Unm \/ Add \/ Sub
NextLerp == Lerp
NextConv == ToVariant \/ FromVariant \/ FromVariantBack

Next == NextNew \/ NextArith \/ NextLerp \/ NextConv

Spec == Init /\ [][Next]_vars
SpecNew == Init /\ [][NextNew]_vars
SpecArith == Init /\ [][NextArith]_vars
SpecLerp == Init /\ [][NextLerp]_vars
SpecConv == Init /\ [][NextConv]_vars

-----------------------------------------------------------------------------
(* Conversion contract *)

\* C1: converting a UDim2 to a tagged value with no requested discriminant
\* and converting that tagged value back succeeds and returns a UDim2 with
\* the same x.scale, x.offset, y.scale and y.offset.
C1_RoundTrip ==
    (call.op = "from_rbx_variant" /\ call.origin.some)
        => /\ out.ok
           /\ out.v.x.scale = call.origin.v.x.scale
           /\ out.v.x.offset = call.origin.v.x.offset
           /\ out.v.y.scale = call.origin.v.y.scale
           /\ out.v.y.offset = call.origin.v.y.offset

\* a round trip of a UDim2 whose two axes differ, one offset the least i32
C1_Witness ==
    /\ call.op = "from_rbx_variant"
    /\ call.origin = Some(MkUDim2(MkUDim(Zero(1), I32_MIN), UDimA))
    /\ out = Ok(MkUDim2(MkUDim(Zero(1), I32_MIN), UDimA))

\* C2: from_rbx_variant succeeds exactly on a tagged value whose discriminant
\* is UDim2; on any other it returns the error that carries the name of the
\* actual discriminant and the name "UDim2", and no UDim2.
C2_DiscriminantRejection ==
    call.op = "from_rbx_variant"
        => /\ out.ok <=> call.variant.tag = RbxVariantType_UDim2
           /\ out.ok => "v" \in DOMAIN out
           /\ ~out.ok =>
                /\ "v" \notin DOMAIN out
                /\ out.err.kind = "FromRbxVariant"
                /\ out.err.from = VariantTypeNames[call.variant.tag]
                /\ out.err.to = "UDim2"

\* a tagged Vector2 is rejected, and the error names Vector2
C2_Witness ==
    /\ call.op = "from_rbx_variant"
    /\ call.variant.tag = TypeNamed("Vector2")
    /\ ~out.ok
    /\ out.err.from = "Vector2"

\* C3: to_rbx_variant succeeds exactly when no discriminant or the UDim2
\* discriminant is requested, and then returns a tagged value of discriminant
\* UDim2 holding the fields of the UDim2; for any other requested
\* discriminant it returns the error that carries the name "UDim2" and the
\* name of the requested discriminant.
C3_NoCoercion ==
    call.op = "to_rbx_variant"
        => /\ out.ok <=> (call.desired = None
                            \/ call.desired = Some(RbxVariantType_UDim2))
           /\ out.ok =>
                /\ out.v.tag = RbxVariantType_UDim2
                /\ out.v.payload.x.scale = call.self.x.scale
                /\ out.v.payload.x.offset = call.self.x.offset
                /\ out.v.payload.y.scale = call.self.y.scale
                /\ out.v.payload.y.offset = call.self.y.offset
           /\ ~out.ok =>
                /\ "v" \notin DOMAIN out
                /\ out.err.kind = "ToRbxVariant"
                /\ out.err.from = "UDim2"
                /\ out.err.to = VariantTypeNames[call.desired.v]

\* a UDim2 asked to become a tagged UDim is refused, and the error names UDim
C3_Witness ==
    /\ call.op = "to_rbx_variant"
    /\ call.desired = Some(TypeNamed("UDim"))
    /\ call.self = MkUDim2(UDimA, MkUDim(NaN, 1))
    /\ ~out.ok
    /\ out.err.to = "UDim"

-----------------------------------------------------------------------------
(* UDim2.new *)

IsUDimArg(val) == val.t = "userdata" /\ val.ty = "UDim"
IsNumberArg(val) == val.t = "number"
\* a number that is an i32
IsIntegerArg(val) ==
    /\ val.t = "number"
    /\ NumberToI32(val.n).some
    /\ IsFinite(val.n) /\ val.n.e >= 0

\* the positions of an argument list that supply a value
Supplied(args) == { i \in 1..Len(args) : args[i] # LuaNil }

\* the shapes the constructor recognizes, each consuming every supplied value
ShapeEmpty(args) == Supplied(args) = {}
ShapeUDims(args) == \A i \in Supplied(args) : i <= 2 /\ IsUDimArg(args[i])
ShapeNums(args) == \A i \in Supplied(args) : i <= 4 /\ CoerceNumber(args[i]).some

\* C4: a shape is selected only when it consumes every supplied argument: the
\* two-UDim shape is never selected when a value is supplied past the second
\* position, nor the four-number shape when one is supplied past the fourth.
C4_TotalConsumption ==
    /\ pc = "udims" => \A i \in Supplied(call.args) : i <= 2
    /\ pc = "nums" => \A i \in Supplied(call.args) : i <= 4

ScaleSamples == { MkF(1, -1), MkF(1, -2), MkF(10, 0), MkF(5, 0) }
OffsetSamples == { 10, 5 }

\* C5: new() returns the UDim2 of four zeros, and new(UDim{sx,ox},
\* UDim{sy,oy}) and new(sx, ox, sy, oy) both return the UDim2 with x = {sx,ox}
\* and y = {sy,oy}.
C5_OverloadDisambiguation ==
    call.op = "new"
        => /\ call.args = <<>> =>
                out = Ok(MkUDim2(MkUDim(Zero(0), 0), MkUDim(Zero(0), 0)))
           /\ Len(call.args) \in {2, 4} =>
              \A sx \in ScaleSamples, sy \in ScaleSamples,
                 ox \in OffsetSamples, oy \in OffsetSamples :
                LET want == Ok(MkUDim2(MkUDim(sx, ox), MkUDim(sy, oy))) IN
                /\ call.args = << LuaUserData("UDim", MkUDim(sx, ox)),
                                  LuaUserData("UDim", MkUDim(sy, oy)) >>
                     => out = want
                /\ call.args = << LuaNumber(sx), LuaNumber(MkF(ox, 0)),
                                  LuaNumber(sy), LuaNumber(MkF(oy, 0)) >>
                     => out = want

\* new(0.5, 10, 0.25, 5) has returned what new(UDim(0.5, 10), UDim(0.25, 5))
\* returns
C5_Witness ==
    /\ pc = "nums"
    /\ call.args = << LuaNumber(MkF(1, -1)), LuaNumber(MkF(10, 0)),
                      LuaNumber(MkF(1, -2)), LuaNumber(MkF(5, 0)) >>
    /\ out = UDim2_new(<< LuaUserData("UDim", UDimA), LuaUserData("UDim", UDimB) >>)
    /\ out = Ok(MkUDim2(UDimA, UDimB))

\* the component a list of up to four numbers-or-nil gives at position i
NumberAt(args, i) ==
    IF i <= Len(args) /\ IsNumberArg(args[i]) THEN args[i].n ELSE Zero(0)
IntegerAt(args, i) ==
    IF i <= Len(args) /\ IsNumberArg(args[i]) THEN NumberToI32(args[i].n).v ELSE 0

\* C6: a call with up to four arguments (scaleX, offsetX, scaleY, offsetY),
\* each a number or nil and at least one a number, returns the UDim2 with
\* x = {scaleX, offsetX} and y = {scaleY, offsetY}, nil read as zero,
\* whichever positions are nil.
C6_FourNumbers ==
    ( /\ call.op = "new"
      /\ Len(call.args) <= 4
      /\ \A i \in 1..Len(call.args) :
            \/ call.args[i] = LuaNil
            \/ (i \in {1, 3} /\ IsNumberArg(call.args[i]))
            \/ (i \in {2, 4} /\ IsIntegerArg(call.args[i]))
      /\ \E i \in 1..Len(call.args) : IsNumberArg(call.args[i]) )
        => out = Ok(MkUDim2(MkUDim(NumberAt(call.args, 1), IntegerAt(call.args, 2)),
                            MkUDim(NumberAt(call.args, 3), IntegerAt(call.args, 4))))

\* the words by which a message names the constructor
ConstructorNames == { "UDim2.new", "UDim2", "new" }

\* C7: a call whose argument list matches none of the recognized shapes fails
\* with a runtime error whose message names the constructor, and returns no
\* UDim2.
C7_InvalidArguments ==
    ( /\ call.op = "new"
      /\ ~ShapeEmpty(call.args) /\ ~ShapeUDims(call.args) /\ ~ShapeNums(call.args) )
        => /\ ~out.ok
           /\ "v" \notin DOMAIN out
           /\ out.err.kind = "RuntimeError"
           /\ \E i \in 1..Len(out.err.message) :
                 out.err.message[i] \in ConstructorNames

\* C7, the outcome alone: a call that matches no recognized shape returns no
\* UDim2, whatever the message of its error says.
C7_NoObject ==
    ( /\ call.op = "new"
      /\ ~ShapeEmpty(call.args) /\ ~ShapeUDims(call.args) /\ ~ShapeNums(call.args) )
        => ~out.ok

-----------------------------------------------------------------------------
(* Arithmetic *)

FiniteScales(v) == IsFinite(v.x.scale) /\ IsFinite(v.y.scale)

\* C9 as stated: for every UDim2 v, v + zero == v and v + (-v) == zero.
C9_AdditiveIdentity_EveryValue ==
    call.op = "add"
        => /\ call.rhs = UDim2_zero => UDim2_eq(out.v, call.this)
           /\ call.rhs = UDim2_neg(call.this) => UDim2_eq(out.v, UDim2_zero)

\* C9: for every UDim2 v whose two scales are finite, v + zero == v and
\* v + (-v) == zero, the i32 offsets wrapping (the offset i32::MIN included).
C9_AdditiveIdentity ==
    (call.op = "add" /\ FiniteScales(call.this))
        => /\ call.rhs = UDim2_zero => UDim2_eq(out.v, call.this)
           /\ call.rhs = UDim2_neg(call.this) => UDim2_eq(out.v, UDim2_zero)

\* v + (-v) has given zero for a v with the offset i32::MIN on one axis and
\* another offset and scale on the other
C9_Witness ==
    /\ call.op = "add"
    /\ call.this = MkUDim2(MkUDim(Zero(1), I32_MIN), UDimA)
    /\ call.rhs = UDim2_neg(call.this)
    /\ call.rhs.y.offset = -10
    /\ UDim2_eq(out.v, UDim2_zero)

-----------------------------------------------------------------------------
(* Lerp *)

\* C8: a:Lerp(b, 0) equals a and a:Lerp(b, 1) equals b, for every i32 offset.
C8_LerpBoundary ==
    call.op = "Lerp"
        => /\ call.alpha = MkF(0, 0) => UDim2_eq(out.v, call.this)
           /\ call.alpha = MkF(1, 0) => UDim2_eq(out.v, call.rhs)

\* the value interpolated between two offsets
InterpolatedOffset(a, b, alpha) ==
    Vec2_lerp(Vec2_new(a.scale, I32ToF32(a.offset)),
              Vec2_new(b.scale, I32ToF32(b.offset)), alpha).y

TwoTo31 == Canon(0, 1, 31)

\* n is the integer nearest to the finite number v, a half going away from
\* zero, for v strictly between -2^31 and 2^31
NearestInteger(v, n) ==
    LET a == IF n < 0 THEN -n ELSE n IN
    /\ n # 0 => (n < 0 <=> v.s = 1)
    /\ IF v.e >= 0 THEN a = v.m * Pow2(v.e)
       ELSE IF -v.e > F32_MANTISSA_DIGITS THEN a = 0
       ELSE /\ a <= Pow2(F32_MANTISSA_DIGITS)
            /\ LET d == Pow2(-v.e)
                   diff == a * d - v.m
               IN  \/ (2 * diff < d /\ 2 * diff > -d)
                   \/ 2 * diff = d

\* n is v clamped to the i32 range and then rounded to nearest
ClampedThenRounded(v, n) ==
    /\ I32_MIN <= n /\ n <= I32_MAX
    /\ IF IsNaN(v) THEN n = 0
       ELSE IF ~FLt(v, TwoTo31) THEN n = I32_MAX
       ELSE IF ~FLt(FNeg(TwoTo31), v) THEN n = I32_MIN
       ELSE NearestInteger(v, n)

\* C10: for every scalar alpha, the offset of each axis of a Lerp result is
\* the interpolated value clamped to [i32::MIN, i32::MAX] and then rounded to
\* nearest, so it lies in the i32 range and never wraps; and each axis of the
\* result depends on that axis of the two operands alone.
C10_LerpOffsetPolicy ==
    call.op = "Lerp"
        => LET a == call.this
               b == call.rhs
               t == call.alpha
           IN  /\ ClampedThenRounded(InterpolatedOffset(a.x, b.x, t), out.v.x.offset)
               /\ ClampedThenRounded(InterpolatedOffset(a.y, b.y, t), out.v.y.offset)
               /\ out.v.x = UDim2_Lerp(MkUDim2(a.x, UDim_default),
                                       MkUDim2(b.x, UDim_default), t).x
               /\ out.v.y = UDim2_Lerp(MkUDim2(UDim_default, a.y),
                                       MkUDim2(UDim_default, b.y), t).y

\* an interpolated value above the i32 range has given the offset i32::MAX
\* on one axis, and the value -9.5 the offset -10 on the other
C10_Witness ==
    /\ call.op = "Lerp"
    /\ call.alpha = MkF(3, -1)
    /\ call.this = MkUDim2(UDimA, UDimA)
    /\ call.rhs = MkUDim2(MkUDim(MkF(1, -2), I32_MAX), MkUDim(MkF(1, 0), -3))
    /\ out.v.x.offset = I32_MAX
    /\ out.v.y.offset = -10

====
